---- MODULE Spec2Model ----
\* Model of the arena (region) allocator of src/arena.c and src/arena.h.
\*
\* A Region (struct arena_t) owns a chain of Blocks (struct arena_block_t).
\* Block metadata records are identified by the serial number of the malloc
\* call that produced them (1, 2, ...); 0 stands for NULL.  The backing
\* buffers live in a size_t-wide address space; malloc picks their base
\* address.  size_t arithmetic is computed modulo 2^SizeBits.
EXTENDS Integers, Naturals, Sequences, FiniteSets, TLC

\* ---------------------------------------------------------------------------
\* Bounds of the model
\* ---------------------------------------------------------------------------

\* Width of size_t and of a data pointer, in bits.
SizeBits == 16

\* Number of operations (arena_init, _arena_alloc, arena_deinit) in a run.
MaxOps == 3

\* Number of Block metadata records malloc hands out in a run.
MaxBlocks == 3

\* ---------------------------------------------------------------------------
\* Program constants
\* ---------------------------------------------------------------------------

\* The minimum capacity of a new Block (the literal 4096 of _arena_alloc).
DefaultBlockSize == 4096

\* The alignment malloc guarantees for the base address of a buffer.
MallocAlign == 16

Null == 0

Pow2(n) == 2 ^ n

SizeMod == Pow2(SizeBits)

SIZE_MAX == SizeMod - 1

\* size_t arithmetic: the result of an unsigned operation, reduced modulo 2^w.
Wrap(x) == x % SizeMod

\* ---------------------------------------------------------------------------
\* Inputs
\* ---------------------------------------------------------------------------

\* Sizes requested by the caller (any size_t value is a valid size).
Sizes == {0, 8, DefaultBlockSize, 5000, SIZE_MAX}

\* Alignments requested by the caller (powers of two).
Aligns == {1, 8, 2 * MallocAlign}

\* Base addresses malloc may return for a backing buffer: multiples of
\* MallocAlign, one of them not a multiple of 2 * MallocAlign.
Bases == {DefaultBlockSize, DefaultBlockSize + MallocAlign, 14 * DefaultBlockSize}

\* ---------------------------------------------------------------------------
\* State
\* ---------------------------------------------------------------------------

VARIABLES
    head,      \* arena_t.head: serial of the first Block, or Null
    tail,      \* arena_t.tail: serial of the last Block, or Null
    blocks,    \* the arena_block_t records, indexed by serial
    liveMeta,  \* serials whose metadata record is malloc'ed and not freed
    liveData,  \* serials whose backing buffer is malloc'ed and not freed
    frees,     \* per serial, the number of free() calls on record and buffer
    allocs,    \* the successful allocations since the last init/deinit
    last,      \* the last operation: its arguments, result and system calls
    nops       \* number of operations performed

vars == <<head, tail, blocks, liveMeta, liveData, frees, allocs, last, nops>>

\* ---------------------------------------------------------------------------
\* Bit operations on size_t
\* ---------------------------------------------------------------------------

RECURSIVE BitAnd(_, _, _)
\* x & y over the n low bits.
BitAnd(x, y, n) ==
    IF n = 0 THEN 0
    ELSE (IF x % 2 = 1 /\ y % 2 = 1 THEN 1 ELSE 0)
         + 2 * BitAnd(x \div 2, y \div 2, n - 1)

\* ~x on size_t.
BitNot(x) == SIZE_MAX - x

\* !x of C: 1 when x is zero, 0 otherwise (an int).
LogicalNot(x) == IF x = 0 THEN 1 ELSE 0

\* (b->offset + align - 1) & ~(align - 1), in size_t arithmetic.
AlignedOffset(off, align) ==
    BitAnd(Wrap(off + align - 1), BitNot(Wrap(align - 1)), SizeBits)

\* ---------------------------------------------------------------------------
\* The system allocator
\* ---------------------------------------------------------------------------

\* The buffers [base1, base1 + n1) and [base2, base2 + n2) share a byte.
Overlaps(base1, n1, base2, n2) ==
    /\ base1 < base2 + n2
    /\ base2 < base1 + n1

\* malloc(n) may return base: the buffer is aligned, lies inside the address
\* space with its one-past-the-end address representable, and is disjoint from
\* every live buffer.
MallocCanReturn(base, n) ==
    /\ base \in Bases
    /\ base % MallocAlign = 0
    /\ base + n < SizeMod
    /\ \A s \in liveData :
          ~Overlaps(base, n, blocks[s].data, blocks[s].capacity)

\* ---------------------------------------------------------------------------
\* arena_init
\* ---------------------------------------------------------------------------

NoCall == [op |-> "none", size |-> 0, align |-> 0, ret |-> Null, blk |-> Null,
           start |-> 0, grew |-> FALSE, sysfail |-> FALSE, mallocs |-> 0,
           nfrees |-> 0]

Init ==
    /\ head = Null
    /\ tail = Null
    /\ blocks = <<>>
    /\ liveMeta = {}
    /\ liveData = {}
    /\ frees = <<>>
    /\ allocs = <<>>
    /\ last = [NoCall EXCEPT !.op = "init"]
    /\ nops = 0

arena_init ==
    /\ nops < MaxOps
    /\ head' = Null
    /\ tail' = Null
    /\ allocs' = <<>>
    /\ last' = [NoCall EXCEPT !.op = "init"]
    /\ nops' = nops + 1
    /\ UNCHANGED <<blocks, liveMeta, liveData, frees>>

\* ---------------------------------------------------------------------------
\* _arena_alloc
\* ---------------------------------------------------------------------------

\* size_t offset = b ? ((b->offset + align - 1) & ~(align - 1)) : 0;
offset(align) ==
    IF tail # Null THEN AlignedOffset(blocks[tail].offset, align) ELSE 0

\* if (!b || !offset + size > b->capacity)
NeedsNewBlock(size, align) ==
    IF tail = Null THEN TRUE
    ELSE Wrap(LogicalNot(offset(align)) + size) > blocks[tail].capacity

\* new_capacity that ignores the request: always 4096.
new_capacity_Default(size) == DefaultBlockSize

\* const size_t new_capacity = size > 4096 ? size : 4096;
new_capacity(size) == IF size > DefaultBlockSize THEN size ELSE DefaultBlockSize

\* void *ptr = b->data + offset;
PtrAt(base, off) == Wrap(base + off)

\* AllocFromTail without the statement b->offset = offset + size.
AllocFromTail_NoAdvance(size, align) ==
    LET b == tail
        off == offset(align)
        ptr == PtrAt(blocks[b].data, off)
    IN  /\ nops < MaxOps
        /\ ~NeedsNewBlock(size, align)
        /\ allocs' = Append(allocs, [blk |-> b, start |-> off, size |-> size,
                                    align |-> align, ptr |-> ptr])
        /\ last' = [op |-> "alloc", size |-> size, align |-> align, ret |-> ptr,
                    blk |-> b, start |-> off, grew |-> FALSE, sysfail |-> FALSE,
                    mallocs |-> 0, nfrees |-> 0]
        /\ nops' = nops + 1
        /\ UNCHANGED <<head, tail, blocks, liveMeta, liveData, frees>>

\* The request is served from the current tail Block.
AllocFromTail(size, align) ==
    LET b == tail
        off == offset(align)
        ptr == PtrAt(blocks[b].data, off)
    IN  /\ nops < MaxOps
        /\ ~NeedsNewBlock(size, align)
        /\ blocks' = [blocks EXCEPT ![b].offset = Wrap(off + size)]
        /\ allocs' = Append(allocs, [blk |-> b, start |-> off, size |-> size,
                                    align |-> align, ptr |-> ptr])
        /\ last' = [op |-> "alloc", size |-> size, align |-> align, ret |-> ptr,
                    blk |-> b, start |-> off, grew |-> FALSE, sysfail |-> FALSE,
                    mallocs |-> 0, nfrees |-> 0]
        /\ nops' = nops + 1
        /\ UNCHANGED <<head, tail, liveMeta, liveData, frees>>

\* AllocNewBlock without the statement a->tail = new_block.
AllocNewBlock_KeepsTail(size, align, base) ==
    LET b == tail
        new_block == Len(blocks) + 1
        cap == new_capacity(size)
        ptr == PtrAt(base, 0)
        linked == IF b # Null THEN [blocks EXCEPT ![b].next = new_block]
                  ELSE blocks
    IN  /\ nops < MaxOps
        /\ new_block <= MaxBlocks
        /\ NeedsNewBlock(size, align)
        /\ MallocCanReturn(base, cap)
        /\ blocks' = Append(linked, [data |-> base, capacity |-> cap,
                                     offset |-> Wrap(0 + size), next |-> Null])
        /\ head' = IF head = Null THEN new_block ELSE head
        /\ tail' = tail
        /\ liveMeta' = liveMeta \cup {new_block}
        /\ liveData' = liveData \cup {new_block}
        /\ frees' = Append(frees, [meta |-> 0, data |-> 0])
        /\ allocs' = Append(allocs, [blk |-> new_block, start |-> 0,
                                    size |-> size, align |-> align, ptr |-> ptr])
        /\ last' = [op |-> "alloc", size |-> size, align |-> align, ret |-> ptr,
                    blk |-> new_block, start |-> 0, grew |-> TRUE,
                    sysfail |-> FALSE, mallocs |-> 2, nfrees |-> 0]
        /\ nops' = nops + 1

\* A new Block is created (both malloc calls succeed, the buffer is at base),
\* linked in, and the request is served at its offset 0.
AllocNewBlock(size, align, base) ==
    LET b == tail
        new_block == Len(blocks) + 1
        cap == new_capacity(size)
        ptr == PtrAt(base, 0)
        linked == IF b # Null THEN [blocks EXCEPT ![b].next = new_block]
                  ELSE blocks
    IN  /\ nops < MaxOps
        /\ new_block <= MaxBlocks
        /\ NeedsNewBlock(size, align)
        /\ MallocCanReturn(base, cap)
        /\ blocks' = Append(linked, [data |-> base, capacity |-> cap,
                                     offset |-> Wrap(0 + size), next |-> Null])
        /\ head' = IF head = Null THEN new_block ELSE head
        /\ tail' = new_block
        /\ liveMeta' = liveMeta \cup {new_block}
        /\ liveData' = liveData \cup {new_block}
        /\ frees' = Append(frees, [meta |-> 0, data |-> 0])
        /\ allocs' = Append(allocs, [blk |-> new_block, start |-> 0,
                                    size |-> size, align |-> align, ptr |-> ptr])
        /\ last' = [op |-> "alloc", size |-> size, align |-> align, ret |-> ptr,
                    blk |-> new_block, start |-> 0, grew |-> TRUE,
                    sysfail |-> FALSE, mallocs |-> 2, nfrees |-> 0]
        /\ nops' = nops + 1

\* malloc(sizeof(struct arena_block_t)) returns NULL.
AllocFailMeta(size, align) ==
    /\ nops < MaxOps
    /\ NeedsNewBlock(size, align)
    /\ last' = [op |-> "alloc", size |-> size, align |-> align, ret |-> Null,
                blk |-> Null, start |-> 0, grew |-> FALSE, sysfail |-> TRUE,
                mallocs |-> 1, nfrees |-> 0]
    /\ nops' = nops + 1
    /\ UNCHANGED <<head, tail, blocks, liveMeta, liveData, frees, allocs>>

\* AllocFailData that asks malloc for the buffer a second time before giving up.
AllocFailData_Retry(size, align) ==
    LET new_block == Len(blocks) + 1
    IN  /\ nops < MaxOps
        /\ new_block <= MaxBlocks
        /\ NeedsNewBlock(size, align)
        /\ blocks' = Append(blocks, [data |-> Null, capacity |-> 0,
                                     offset |-> 0, next |-> Null])
        /\ liveMeta' = (liveMeta \cup {new_block}) \ {new_block}
        /\ frees' = Append(frees, [meta |-> 1, data |-> 0])
        /\ last' = [op |-> "alloc", size |-> size, align |-> align, ret |-> Null,
                    blk |-> Null, start |-> 0, grew |-> FALSE,
                    sysfail |-> TRUE, mallocs |-> 3, nfrees |-> 1]
        /\ nops' = nops + 1
        /\ UNCHANGED <<head, tail, liveData, allocs>>

\* AllocFailData without free(new_block): the metadata record stays live.
AllocFailData_Leak(size, align) ==
    LET new_block == Len(blocks) + 1
    IN  /\ nops < MaxOps
        /\ new_block <= MaxBlocks
        /\ NeedsNewBlock(size, align)
        /\ blocks' = Append(blocks, [data |-> Null, capacity |-> 0,
                                     offset |-> 0, next |-> Null])
        /\ liveMeta' = liveMeta \cup {new_block}
        /\ frees' = Append(frees, [meta |-> 0, data |-> 0])
        /\ last' = [op |-> "alloc", size |-> size, align |-> align, ret |-> Null,
                    blk |-> Null, start |-> 0, grew |-> FALSE,
                    sysfail |-> TRUE, mallocs |-> 2, nfrees |-> 0]
        /\ nops' = nops + 1
        /\ UNCHANGED <<head, tail, liveData, allocs>>

\* The metadata malloc succeeds, malloc(new_capacity) returns NULL, and the
\* metadata record is freed again.
AllocFailData(size, align) ==
    LET new_block == Len(blocks) + 1
    IN  /\ nops < MaxOps
        /\ new_block <= MaxBlocks
        /\ NeedsNewBlock(size, align)
        /\ blocks' = Append(blocks, [data |-> Null, capacity |-> 0,
                                     offset |-> 0, next |-> Null])
        /\ liveMeta' = (liveMeta \cup {new_block}) \ {new_block}
        /\ frees' = Append(frees, [meta |-> 1, data |-> 0])
        /\ last' = [op |-> "alloc", size |-> size, align |-> align, ret |-> Null,
                    blk |-> Null, start |-> 0, grew |-> FALSE,
                    sysfail |-> TRUE, mallocs |-> 2, nfrees |-> 1]
        /\ nops' = nops + 1
        /\ UNCHANGED <<head, tail, liveData, allocs>>

\* ---------------------------------------------------------------------------
\* arena_deinit
\* ---------------------------------------------------------------------------

RECURSIVE ChainFrom(_, _)
\* The Blocks visited by the loop of arena_deinit started at b, following next
\* for at most n steps.
ChainFrom(b, n) ==
    IF b = Null \/ n = 0 THEN <<>>
    ELSE <<b>> \o ChainFrom(blocks[b].next, n - 1)

Chain == ChainFrom(head, Len(blocks))

InChain(s) == \E i \in 1..Len(Chain) : Chain[i] = s

\* Number of times the walk visits serial s.
Visits(s) == Cardinality({i \in 1..Len(Chain) : Chain[i] = s})

\* arena_deinit without free(b->data): only the metadata records are freed.
arena_deinit_KeepsBuffers ==
    /\ nops < MaxOps
    /\ frees' = [s \in 1..Len(frees) |->
                    [meta |-> frees[s].meta + Visits(s),
                     data |-> frees[s].data]]
    /\ liveMeta' = {s \in liveMeta : ~InChain(s)}
    /\ liveData' = liveData
    /\ head' = Null
    /\ tail' = Null
    /\ allocs' = <<>>
    /\ last' = [NoCall EXCEPT !.op = "deinit", !.nfrees = Len(Chain)]
    /\ nops' = nops + 1
    /\ UNCHANGED blocks

\* arena_deinit without the statement a->head = a->tail = NULL.
arena_deinit_NoReset ==
    /\ nops < MaxOps
    /\ frees' = [s \in 1..Len(frees) |->
                    [meta |-> frees[s].meta + Visits(s),
                     data |-> frees[s].data + Visits(s)]]
    /\ liveMeta' = {s \in liveMeta : ~InChain(s)}
    /\ liveData' = {s \in liveData : ~InChain(s)}
    /\ allocs' = <<>>
    /\ last' = [NoCall EXCEPT !.op = "deinit", !.nfrees = 2 * Len(Chain)]
    /\ nops' = nops + 1
    /\ UNCHANGED <<head, tail, blocks>>

arena_deinit ==
    /\ nops < MaxOps
    /\ frees' = [s \in 1..Len(frees) |->
                    [meta |-> frees[s].meta + Visits(s),
                     data |-> frees[s].data + Visits(s)]]
    /\ liveMeta' = {s \in liveMeta : ~InChain(s)}
    /\ liveData' = {s \in liveData : ~InChain(s)}
    /\ head' = Null
    /\ tail' = Null
    /\ allocs' = <<>>
    /\ last' = [NoCall EXCEPT !.op = "deinit", !.nfrees = 2 * Len(Chain)]
    /\ nops' = nops + 1
    /\ UNCHANGED blocks

\* ---------------------------------------------------------------------------
\* Specification
\* ---------------------------------------------------------------------------

\* The caller re-initialises a Region only when it holds no Block.
Reinit == head = Null /\ arena_init

AllocTailCall == \E size \in Sizes, align \in Aligns : AllocFromTail(size, align)

AllocGrowCall ==
    \E size \in Sizes, align \in Aligns, base \in Bases :
        AllocNewBlock(size, align, base)

AllocFailMetaCall ==
    \E size \in Sizes, align \in Aligns : AllocFailMeta(size, align)

AllocFailDataCall ==
    \E size \in Sizes, align \in Aligns : AllocFailData(size, align)

Next ==
    \/ Reinit
    \/ AllocTailCall
    \/ AllocGrowCall
    \/ AllocFailMetaCall
    \/ AllocFailDataCall
    \/ arena_deinit

Spec == Init /\ [][Next]_vars

\* ---------------------------------------------------------------------------
\* The macros arena_alloc and arena_alloc_array
\* ---------------------------------------------------------------------------

\* Element types named by the caller: sizeof(type) and _Alignof(type).
Types == {[size |-> 1, align |-> 1], [size |-> 8, align |-> 8]}

\* Element counts passed by the caller, as size_t values; the last one makes
\* the byte size of an array of 8-byte elements equal to 2^SizeBits.
Counts == {0, 1, 3, SizeMod \div 8}

\* A call of _arena_alloc(a, size, align), with every outcome of its malloc
\* requests.
_arena_alloc(size, align) ==
    \/ AllocFromTail(size, align)
    \/ \E base \in Bases : AllocNewBlock(size, align, base)
    \/ AllocFailMeta(size, align)
    \/ AllocFailData(size, align)

\* #define arena_alloc(a, type)
\*     ((type*)_arena_alloc(a, sizeof(type), _Alignof(type)))
arena_alloc(type) == _arena_alloc(type.size, type.align)

\* #define arena_alloc_array(a, type, count)
\*     ((type*)_arena_alloc(a, sizeof(type)*(count), _Alignof(type)))
\* The product is computed in size_t.
arena_alloc_array(type, count) ==
    _arena_alloc(Wrap(type.size * count), type.align)

ArenaAllocCall == \E type \in Types : arena_alloc(type)

ArenaAllocArrayCall ==
    \E type \in Types, count \in Counts : arena_alloc_array(type, count)

NextMacros ==
    \/ Reinit
    \/ ArenaAllocCall
    \/ ArenaAllocArrayCall
    \/ arena_deinit

SpecMacros == Init /\ [][NextMacros]_vars

\* ---------------------------------------------------------------------------
\* Claims
\* ---------------------------------------------------------------------------

\* The serials of the Blocks reachable from head.
ChainSet == {Chain[i] : i \in 1..Len(Chain)}

\* C1: every Block of the chain satisfies 0 <= offset <= capacity, and every
\* range [start, start + size) handed out by allocate ends inside the buffer
\* of the Block it was served from: start + size <= capacity.
C1_RangesInsideBlock ==
    /\ \A s \in ChainSet :
          /\ 0 <= blocks[s].offset
          /\ blocks[s].offset <= blocks[s].capacity
    /\ \A i \in 1..Len(allocs) :
          allocs[i].start + allocs[i].size <= blocks[allocs[i].blk].capacity

\* C2: the address returned by every successful allocate(size, align) is a
\* multiple of align, for every power-of-two align, also those larger than
\* the alignment malloc guarantees for the base of a buffer.
C2_PointerAligned ==
    \A i \in 1..Len(allocs) : allocs[i].ptr % allocs[i].align = 0

\* The half-open ranges [s1, s1 + n1) and [s2, s2 + n2) have no byte in common.
Disjoint(s1, n1, s2, n2) ==
    \/ n1 = 0
    \/ n2 = 0
    \/ s1 + n1 <= s2
    \/ s2 + n2 <= s1

\* C3: any two distinct successful allocations served from the same Block
\* have disjoint ranges [start, start + size).
C3_RangesDisjoint ==
    \A i, j \in 1..Len(allocs) :
        (i < j /\ allocs[i].blk = allocs[j].blk)
            => Disjoint(allocs[i].start, allocs[i].size,
                        allocs[j].start, allocs[j].size)

\* C4: an allocate(size, align) with size > 4096 during which the system
\* allocator does not fail succeeds, and its pointer is served from a Block
\* whose capacity is >= size.
C4_LargeRequestFits ==
    (last.op = "alloc" /\ last.size > DefaultBlockSize /\ ~last.sysfail)
        => /\ last.ret # Null
           /\ last.blk # Null
           /\ blocks[last.blk].capacity >= last.size

\* The state of a Region that holds nothing: no Block, no live system
\* allocation, no allocation handed out.
FreshRegion ==
    /\ head = Null
    /\ tail = Null
    /\ liveMeta = {}
    /\ liveData = {}
    /\ allocs = <<>>

\* C5: when the system allocator fails during allocate, at the metadata
\* request or at the buffer request, allocate returns failure, head, tail and
\* every existing Block (offset, capacity, next) are as before the call, the
\* chain is the same (the failed Block is not linked in), and the live system
\* allocations are the same (the metadata of the failed attempt is released).
C5_FailureLeavesRegionUnchanged ==
    [][(last'.op = "alloc" /\ last'.sysfail)
        => /\ last'.ret = Null
           /\ head' = head
           /\ tail' = tail
           /\ \A s \in 1..Len(blocks) : blocks'[s] = blocks[s]
           /\ Chain' = Chain
           /\ liveMeta' = liveMeta
           /\ liveData' = liveData
           /\ allocs' = allocs]_vars

\* C5 witness: the buffer request has just failed on a Region holding a Block,
\* after the metadata of the attempt was obtained and released.
C5_Witness ==
    /\ last.op = "alloc"
    /\ last.sysfail
    /\ last.mallocs = 2
    /\ last.nfrees = 1
    /\ head # Null

\* C6: allocate returns null exactly when a system-allocator request made
\* during the call failed.
C6_NullIffSystemFailure ==
    last.op = "alloc" => (last.ret = Null <=> last.sysfail)

\* C7: deinit releases the buffer and the metadata of every Block reachable
\* from head exactly once, releases nothing else (nothing at all on an empty
\* Region), and leaves a Region that holds nothing, as a never-used one; a
\* following init leaves it so.
C7_DeinitReleasesAll ==
    [][/\ last'.op = "deinit"
          => /\ \A s \in ChainSet : frees'[s] = [meta |-> 1, data |-> 1]
             /\ \A s \in (1..Len(blocks)) \ ChainSet : frees'[s] = frees[s]
             /\ last'.nfrees = 2 * Cardinality(ChainSet)
             /\ FreshRegion'
       /\ (last'.op = "init" /\ last.op = "deinit") => FreshRegion']_vars

\* C7 witness: deinit has just released a chain of two Blocks.
C7_Witness ==
    /\ last.op = "deinit"
    /\ last.nfrees = 4
    /\ \E s, t \in 1..Len(frees) :
          /\ s # t
          /\ frees[s] = [meta |-> 1, data |-> 1]
          /\ frees[t] = [meta |-> 1, data |-> 1]

\* Allocations i and i + 1 were made by consecutive successful calls with the
\* same size and the same align.
SameRequest(i) ==
    /\ allocs[i].size = allocs[i + 1].size
    /\ allocs[i].align = allocs[i + 1].align

C9_SecondBlock ==
    (/\ Len(allocs) >= 2
     /\ allocs[1].size = blocks[allocs[1].blk].capacity
     /\ allocs[2].size = 8
     /\ allocs[2].align = 8)
        => /\ allocs[2].blk # allocs[1].blk
           /\ allocs[2].start = 0
           /\ blocks[allocs[1].blk].next = allocs[2].blk

\* C10: an allocate(size, align) served from the existing tail starts at the
\* least multiple of align that is >= the tail's offset before the call,
\* returns the Block's base plus that start, and leaves the tail's offset at
\* start + size; on a fresh Region allocate(8, 8) twice returns A and A + 8
\* from one Block.
C10_TailServe ==
    [][/\ (last'.op = "alloc" /\ ~last'.sysfail /\ ~last'.grew)
          => /\ last'.blk = tail
             /\ tail' = tail
             /\ Len(blocks') = Len(blocks)
             /\ last'.start % last'.align = 0
             /\ last'.start >= blocks[tail].offset
             /\ last'.start < blocks[tail].offset + last'.align
             /\ last'.ret = Wrap(blocks[tail].data + last'.start)
             /\ blocks'[tail].offset = last'.start + last'.size
       /\ (/\ Len(allocs') = 2
           /\ \A i \in 1..2 : allocs'[i].size = 8 /\ allocs'[i].align = 8)
          => /\ allocs'[2].ptr = allocs'[1].ptr + 8
             /\ allocs'[2].blk = allocs'[1].blk
             /\ Len(Chain') = 1]_vars

\* The least multiple of align that is >= off ("off rounded up to align").
RoundUp(off, align) == ((off + align - 1) \div align) * align

\* C11: allocate(0, align) without system-allocator failure returns a
\* non-null pointer; with a tail Block it creates no Block, starts at the
\* tail's offset rounded up to align and leaves the tail's offset there (no
\* change of any Block when align = 1); without a Block it creates exactly one
\* Block and returns its offset 0.
C11_ZeroByteRequest ==
    [][(last'.op = "alloc" /\ last'.size = 0 /\ ~last'.sysfail)
        => /\ last'.ret # Null
           /\ tail # Null
                => /\ ~last'.grew
                   /\ Len(blocks') = Len(blocks)
                   /\ last'.blk = tail
                   /\ last'.start = RoundUp(blocks[tail].offset, last'.align)
                   /\ blocks'[tail].offset = last'.start
                   /\ last'.align = 1 => blocks' = blocks
           /\ tail = Null
                => /\ last'.grew
                   /\ Len(blocks') = Len(blocks) + 1
                   /\ last'.start = 0
                   /\ last'.ret = blocks'[tail'].data]_vars

\* C12: when a tail Block exists and its offset rounded up to align, plus
\* size, exceeds its capacity, a successful allocate(size, align) creates a new
\* Block and serves the request at offset 0 of it, never from the tail.
C12_GrowsWhenTailCannotHold ==
    [][(/\ last'.op = "alloc"
        /\ ~last'.sysfail
        /\ tail # Null
        /\ RoundUp(blocks[tail].offset, last'.align) + last'.size
              > blocks[tail].capacity)
        => /\ last'.grew
           /\ last'.blk # tail
           /\ last'.start = 0
           /\ Chain' = Append(Chain, last'.blk)]_vars

\* C13: when a tail Block exists and its offset rounded up to align, plus
\* size, is <= its capacity, allocate(size, align) asks the system allocator
\* for nothing, creates no Block and serves the request from the tail; this
\* includes offset 0 with size equal to the capacity.
C13_ServesFromTailWhenItFits ==
    [][(/\ last'.op = "alloc"
        /\ tail # Null
        /\ RoundUp(blocks[tail].offset, last'.align) + last'.size
              <= blocks[tail].capacity)
        => /\ last'.mallocs = 0
           /\ ~last'.grew
           /\ last'.blk = tail
           /\ Len(blocks') = Len(blocks)]_vars

\* C14: a Block created by allocate(size, align) has capacity max(size, 4096),
\* is appended right after the previous tail (or becomes head of an empty
\* Region), is the new tail with next absent, and serves the request at its
\* offset 0, so that its offset is size after the call; no allocate call
\* creates more than one Block.
C14_NewBlockShape ==
    [][/\ (last'.op = "alloc" /\ last'.grew)
          => LET n == last'.blk
             IN  /\ n = Len(blocks')
                 /\ Len(blocks') = Len(blocks) + 1
                 /\ blocks'[n].capacity
                       = (IF last'.size > 4096 THEN last'.size ELSE 4096)
                 /\ blocks'[n].next = Null
                 /\ blocks'[n].offset = last'.size
                 /\ last'.start = 0
                 /\ last'.ret = blocks'[n].data
                 /\ tail' = n
                 /\ tail # Null => (blocks'[tail].next = n /\ head' = head)
                 /\ head = Null => head' = n
                 /\ Chain' = Append(Chain, n)
       /\ last'.op = "alloc"
          => /\ Len(Chain') <= Len(Chain) + 1
             /\ Cardinality(liveData') <= Cardinality(liveData) + 1
             /\ ~last'.grew => Chain' = Chain]_vars

\* C14 witness: a request of 5000 bytes has just created the second Block of
\* the chain.
C14_Witness ==
    /\ last.op = "alloc"
    /\ last.grew
    /\ last.size = 5000
    /\ Len(Chain) = 2
    /\ blocks[tail].capacity = 5000

\* C15: head and tail are both absent or both present; when present, the
\* chain from head is finite and acyclic, ends at tail, and tail is the only
\* Block of it whose next is absent.
C15_TailIsLastOfChain ==
    /\ head = Null <=> tail = Null
    /\ head # Null
         => /\ \A i, j \in 1..Len(Chain) : Chain[i] = Chain[j] => i = j
            /\ Chain[Len(Chain)] = tail
            /\ blocks[tail].next = Null
            /\ \A s \in ChainSet : blocks[s].next = Null => s = tail

\* C15 witness: a chain of two Blocks.
C15_Witness ==
    /\ Len(Chain) = 2
    /\ head # tail
    /\ blocks[head].next = tail

\* C16: an allocate call changes no Block other than the tail: every Block
\* keeps its buffer, its capacity and its place in the chain; every Block
\* that is not the tail, and the tail when a Block is created, keeps its
\* offset; and no Block's offset decreases.
C16_OnlyTailChanges ==
    [][last'.op = "alloc"
        => /\ Len(blocks') >= Len(blocks)
           /\ \A i \in 1..Len(Chain) :
                 i <= Len(Chain') /\ Chain'[i] = Chain[i]
           /\ \A s \in ChainSet :
                 /\ blocks'[s].data = blocks[s].data
                 /\ blocks'[s].capacity = blocks[s].capacity
                 /\ (s # tail \/ last'.grew)
                       => blocks'[s].offset = blocks[s].offset
                 /\ blocks'[s].offset >= blocks[s].offset
                 /\ s # tail => blocks'[s].next = blocks[s].next]_vars

\* C17 (as stated): a deinit that follows a deinit which released at least
\* one Block releases again Blocks that are already released.
C17_Original ==
    [][(last.op = "deinit" /\ last.nfrees > 0 /\ last'.op = "deinit")
        => /\ last'.nfrees > 0
           /\ \E s \in 1..Len(frees') : frees'[s].meta >= 2]_vars

\* C17 (amended): a deinit that directly follows a deinit releases nothing,
\* and no metadata record or buffer is ever released twice.
C17_SecondDeinitReleasesNothing ==
    [][/\ (last.op = "deinit" /\ last'.op = "deinit")
          => /\ last'.nfrees = 0
             /\ frees' = frees
             /\ liveMeta' = liveMeta
             /\ liveData' = liveData
             /\ head' = Null
             /\ tail' = Null
       /\ \A s \in 1..Len(frees') :
             frees'[s].meta <= 1 /\ frees'[s].data <= 1]_vars

\* C17 witness: a deinit has released nothing on a Region whose Block an
\* earlier deinit released.
C17_Witness ==
    /\ last.op = "deinit"
    /\ last.nfrees = 0
    /\ head = Null
    /\ \E s \in 1..Len(frees) : frees[s] = [meta |-> 1, data |-> 1]

\* C18 (as stated): every allocate call issues at most one request to the
\* system allocator, and none when it is served from the tail Block.
C18_Original ==
    last.op = "alloc"
        => /\ last.mallocs <= 1
           /\ (~last.grew /\ ~last.sysfail) => last.mallocs = 0

\* C18 (amended): every allocate call issues at most two requests to the
\* system allocator: none when it is served from the tail Block, and when a
\* Block is needed one for its metadata and, if that succeeds, one for its
\* buffer (so exactly two when the Block is created).
C18_AtMostTwoRequests ==
    [][last'.op = "alloc"
        => /\ last'.mallocs <= 2
           /\ (~last'.grew /\ ~last'.sysfail)
                 => /\ last'.mallocs = 0
                    /\ liveMeta' = liveMeta
                    /\ liveData' = liveData
           /\ last'.grew
                 => /\ last'.mallocs = 2
                    /\ Cardinality(liveMeta' \ liveMeta) = 1
                    /\ Cardinality(liveData' \ liveData) = 1
           /\ last'.sysfail
                 => /\ last'.mallocs \in {1, 2}
                    /\ last'.nfrees = last'.mallocs - 1]_vars

\* C18 witness: a call has just created a Block with two requests.
C18_Witness ==
    /\ last.op = "alloc"
    /\ last.grew
    /\ last.mallocs = 2
    /\ Cardinality(liveMeta) = 1
    /\ Cardinality(liveData) = 1

\* C19: between operations the live system allocations are exactly one
\* metadata record and one buffer per Block reachable from head, no Block of
\* the chain has been released, and after deinit nothing is live.
C19_LiveIsChain ==
    /\ liveMeta = ChainSet
    /\ liveData = ChainSet
    /\ Cardinality(ChainSet) = Len(Chain)
    /\ \A s \in ChainSet : frees[s] = [meta |-> 0, data |-> 0]
    /\ last.op = "deinit" => (liveMeta = {} /\ liveData = {})

\* C19 witness: a Block is live in the chain after an attempt whose buffer
\* request failed.
C19_Witness ==
    /\ head # Null
    /\ liveMeta = ChainSet
    /\ \E s \in 1..Len(blocks) :
          /\ blocks[s].data = Null
          /\ frees[s].meta = 1
          /\ s \notin liveMeta

\* C20: arena_alloc_array(a, type, n) asks _arena_alloc for exactly
\* sizeof(type) * n bytes, the mathematical product, aligned to
\* _Alignof(type), and arena_alloc(a, type) for exactly sizeof(type) bytes
\* aligned to _Alignof(type).
C20_WrappersForwardProduct ==
    [][/\ \A type \in Types, count \in Counts :
             arena_alloc_array(type, count)
                => /\ last'.size = type.size * count
                   /\ last'.align = type.align
       /\ \A type \in Types :
             arena_alloc(type)
                => /\ last'.size = type.size
                   /\ last'.align = type.align]_vars

====
